---- MODULE Spec2Model ----
(***************************************************************************)
(* Model of knowledge_os/cache_normalizer_rs/src/lib.rs: text             *)
(* normalisation (lowercase, whitespace runs collapsed to one space) and   *)
(* the MD5 hex digest of the normalised text, used as a cache key.         *)
(*                                                                         *)
(* A text is a sequence of Unicode code points.  Its length in the Rust    *)
(* sense (String::len) is the length of its UTF-8 encoding, Utf8Len.       *)
(* A hex digest is a sequence of one-character strings.                    *)
(***************************************************************************)
EXTENDS Integers, Sequences, FiniteSets, TLC


(***************************************************************************)
(* MD5 (md5::compute, RFC 1321).  A 32-bit word is a pair <<hi, lo>> of    *)
(* 16-bit halves, so that no intermediate value leaves the integer range   *)
(* of the model checker; all arithmetic is modulo 2^32.                    *)
(***************************************************************************)
WAdd(a, b) ==
   LET lo == a[2] + b[2]
       hi == a[1] + b[1] + (lo \div 65536)
   IN  <<hi % 65536, lo % 65536>>

Rotl16(a, r) ==
   IF r = 0 THEN a
   ELSE LET p == 2 ^ (16 - r)
            q == 2 ^ r
        IN  <<(a[1] % p) * q + (a[2] \div p), (a[2] % p) * q + (a[1] \div p)>>

WRotl(a, s) == IF s >= 16 THEN Rotl16(<<a[2], a[1]>>, s - 16) ELSE Rotl16(a, s)

MD5_K ==
   <<
      <<55146, 42104>>, <<59591, 46934>>, <<9248, 28891>>, <<49597, 52974>>,
      <<62844, 4015>>, <<18311, 50730>>, <<43056, 17939>>, <<64838, 38145>>,
      <<27008, 39128>>, <<35652, 63407>>, <<65535, 23473>>, <<35164, 55230>>,
      <<27536, 4386>>, <<64920, 29075>>, <<42617, 17294>>, <<18868, 2081>>,
      <<63006, 9570>>, <<49216, 45888>>, <<9822, 23121>>, <<59830, 51114>>,
      <<54831, 4189>>, <<580, 5203>>, <<55457, 59009>>, <<59347, 64456>>,
      <<8673, 52710>>, <<49975, 2006>>, <<62677, 3463>>, <<17754, 5357>>,
      <<43491, 59653>>, <<64751, 41976>>, <<26479, 729>>, <<36138, 19594>>,
      <<65530, 14658>>, <<34673, 63105>>, <<28061, 24866>>, <<64997, 14348>>,
      <<42174, 59972>>, <<19422, 53161>>, <<63163, 19296>>, <<48831, 48240>>,
      <<10395, 32454>>, <<60065, 10234>>, <<54511, 12421>>, <<1160, 7429>>,
      <<55764, 53305>>, <<59099, 39397>>, <<8098, 31992>>, <<50348, 22117>>,
      <<62505, 8772>>, <<17194, 65431>>, <<43924, 9127>>, <<64659, 41017>>,
      <<25947, 22979>>, <<36620, 52370>>, <<65519, 62589>>, <<34180, 24017>>,
      <<28584, 32335>>, <<65068, 59104>>, <<41729, 17172>>, <<19976, 4513>>,
      <<63315, 32386>>, <<48442, 62005>>, <<10967, 53947>>, <<60294, 54161>>
   >>

MD5_S ==
   <<7, 12, 17, 22, 7, 12, 17, 22, 7, 12, 17, 22, 7, 12, 17, 22,
     5, 9, 14, 20, 5, 9, 14, 20, 5, 9, 14, 20, 5, 9, 14, 20,
     4, 11, 16, 23, 4, 11, 16, 23, 4, 11, 16, 23, 4, 11, 16, 23,
     6, 10, 15, 21, 6, 10, 15, 21, 6, 10, 15, 21, 6, 10, 15, 21>>

\* Faulty variant of MD5_IV: the initial words with their bytes in the opposite order.
MD5_IV_BigEndian == <<<<291, 17767>>, <<35243, 52719>>, <<65244, 47768>>, <<30292, 12816>>>>

MD5_IV == <<<<26437, 8961>>, <<61389, 43913>>, <<39098, 56574>>, <<4146, 21622>>>>

\* The message padded to a multiple of 64 bytes: 0x80, zeros, and the bit
\* length as 8 little-endian bytes (lengths below 2^28 bytes).
MD5Pad(bytes) ==
   LET n     == Len(bytes)
       zeros == (119 - (n % 64)) % 64
       bits  == n * 8
   IN  bytes \o <<128>> \o [i \in 1..zeros |-> 0]
             \o [i \in 1..8 |-> IF i > 4 THEN 0 ELSE (bits \div (256 ^ (i - 1))) % 256]

\* Word j (0..15) of the 64-byte block starting after offset off, little-endian.
MD5Word(p, off, j) ==
   LET b == off + 4 * j
   IN  <<p[b + 4] * 256 + p[b + 3], p[b + 2] * 256 + p[b + 1]>>

\* One bit of the auxiliary function of operation i, from the bits b, c, d:
\* F = (b & c) | (~b & d), G = (b & d) | (c & ~d), H = b ^ c ^ d,
\* I = c ^ (b | ~d).
MD5Bit(i, b, c, d) ==
   IF i < 16 THEN (IF b = 1 THEN c ELSE d)
   ELSE IF i < 32 THEN (IF d = 1 THEN b ELSE c)
   ELSE IF i < 48 THEN (b + c + d) % 2
   ELSE (c + (IF b = 1 \/ d = 0 THEN 1 ELSE 0)) % 2

\* The auxiliary function on the low n bits of the 16-bit halves b, c, d.
RECURSIVE MD5Bits(_, _, _, _, _)
MD5Bits(i, b, c, d, n) ==
   IF n = 0 THEN 0
   ELSE MD5Bit(i, b % 2, c % 2, d % 2)
        + 2 * MD5Bits(i, b \div 2, c \div 2, d \div 2, n - 1)

MD5F(i, B, C, D) ==
   <<MD5Bits(i, B[1], C[1], D[1], 16), MD5Bits(i, B[2], C[2], D[2], 16)>>

MD5G(i) ==
   IF i < 16 THEN i
   ELSE IF i < 32 THEN (5 * i + 1) % 16
   ELSE IF i < 48 THEN (3 * i + 5) % 16
   ELSE (7 * i) % 16

\* One of the 64 operations on the working state st = <<A, B, C, D>>.
MD5Round(st, p, off, i) ==
   LET f == WAdd(WAdd(MD5F(i, st[2], st[3], st[4]), st[1]),
                 WAdd(MD5_K[i + 1], MD5Word(p, off, MD5G(i))))
   IN  <<st[4], WAdd(st[2], WRotl(f, MD5_S[i + 1])), st[2], st[3]>>

\* Operations i..n-1 of one block.  The test on st makes each intermediate
\* state a value before the next operation starts (the evaluation is
\* otherwise deferred to the end and nests one level per operation).
RECURSIVE MD5Rounds(_, _, _, _, _)
MD5Rounds(st, p, off, i, n) ==
   IF i = n \/ Len(st) # 4 THEN st
   ELSE MD5Rounds(MD5Round(st, p, off, i), p, off, i + 1, n)

\* The four rounds of 16 operations on the block at offset off.
MD5Block(h, p, off) ==
   MD5Rounds(MD5Rounds(MD5Rounds(MD5Rounds(h, p, off, 0, 16),
                                 p, off, 16, 32),
                       p, off, 32, 48),
             p, off, 48, 64)

RECURSIVE MD5Blocks(_, _, _)
MD5Blocks(h, p, off) ==
   IF off >= Len(p) THEN h
   ELSE LET st == MD5Block(h, p, off)
        IN  MD5Blocks(<<WAdd(h[1], st[1]), WAdd(h[2], st[2]),
                        WAdd(h[3], st[3]), WAdd(h[4], st[4])>>, p, off + 64)

\* md5::compute: the 16 digest bytes, each state word little-endian.
md5_compute(bytes) ==
   LET h == MD5Blocks(MD5_IV, MD5Pad(bytes), 0)
   IN  [k \in 1..16 |->
          LET w == h[((k - 1) \div 4) + 1]
              r == (k - 1) % 4
          IN  IF r = 0 THEN w[2] % 256
              ELSE IF r = 1 THEN w[2] \div 256
              ELSE IF r = 2 THEN w[1] % 256
              ELSE w[1] \div 256]

HexDigits == <<"0", "1", "2", "3", "4", "5", "6", "7",
               "8", "9", "a", "b", "c", "d", "e", "f">>

\* Faulty variant of hex_string: upper-case digits.
hex_string_upper(bytes) ==
   [k \in 1..(2 * Len(bytes)) |->
      LET b == bytes[(k + 1) \div 2]
          U == <<"0", "1", "2", "3", "4", "5", "6", "7",
                 "8", "9", "A", "B", "C", "D", "E", "F">>
      IN  IF k % 2 = 1 THEN U[(b \div 16) + 1] ELSE U[(b % 16) + 1]]

\* faster_hex::hex_string: two lowercase hex digits per byte, high nibble first.
hex_string(bytes) ==
   [k \in 1..(2 * Len(bytes)) |->
      LET b == bytes[(k + 1) \div 2]
      IN  IF k % 2 = 1 THEN HexDigits[(b \div 16) + 1] ELSE HexDigits[(b % 16) + 1]]

(***************************************************************************)
(* Bounds of the model.                                                    *)
(***************************************************************************)
\* Longest input text, in characters, of the normalize loop (Spec).
MaxLen == 4

\* Longest input text of the single-text hashing pipeline (SpecHash).
MaxHashLen == 3

\* Longest text of the two-text comparison (SpecPair).
MaxPairLen == 1

\* Longest batch handed to normalize_and_hash_batch (SpecBatch).
MaxBatch == 2

(***************************************************************************)
(* Characters.  The code points the model covers are ASCII and the few     *)
(* others listed in CodePoints; the Unicode properties and mappings below  *)
(* are those of the Unicode Character Database restricted to that set.     *)
(***************************************************************************)
SPACE == 32

CodePoints == (0..127) \cup {133, 160, 304, 775, 931, 962, 963, 8195, 12288}

\* char::is_whitespace: the Unicode White_Space property.
is_whitespace(c) ==
   c \in (9..13) \cup {32, 133, 160, 5760} \cup (8192..8202)
         \cup {8232, 8233, 8239, 8287, 12288}

\* core::unicode::Cased, on CodePoints: A-Z, a-z, U+0130, U+03A3, U+03C2, U+03C3.
Cased(c) == c \in (65..90) \cup (97..122) \cup {304, 931, 962, 963}

\* core::unicode::Case_Ignorable, on CodePoints: ' . : ^ ` and U+0307.
Case_Ignorable(c) == c \in {39, 46, 58, 94, 96, 775}

\* core::unicode::conversions::to_lower, on CodePoints: A-Z to a-z, and
\* U+0130 to "i" followed by U+0307; every other character is unchanged.
\* U+03A3 is handled by map_uppercase_sigma.
to_lower(c) ==
   IF c \in 65..90 THEN <<c + 32>>
   ELSE IF c = 304 THEN <<105, 775>>
   ELSE <<c>>

\* case_ignorable_then_cased(from[..i].chars().rev()): going left from
\* position j, the first character that is not Case_Ignorable is Cased.
RECURSIVE case_ignorable_then_cased_rev(_, _)
case_ignorable_then_cased_rev(s, j) ==
   IF j < 1 THEN FALSE
   ELSE IF Case_Ignorable(s[j]) THEN case_ignorable_then_cased_rev(s, j - 1)
   ELSE Cased(s[j])

\* case_ignorable_then_cased(from[i + 2..].chars()): the same going right.
RECURSIVE case_ignorable_then_cased_fwd(_, _)
case_ignorable_then_cased_fwd(s, j) ==
   IF j > Len(s) THEN FALSE
   ELSE IF Case_Ignorable(s[j]) THEN case_ignorable_then_cased_fwd(s, j + 1)
   ELSE Cased(s[j])

\* Final_Sigma: U+03A3 at position i maps to U+03C2 at the end of a word
\* and to U+03C3 elsewhere.
map_uppercase_sigma(s, i) ==
   IF case_ignorable_then_cased_rev(s, i - 1)
      /\ ~case_ignorable_then_cased_fwd(s, i + 1)
   THEN 962 ELSE 963

\* str::to_lowercase, characters i..Len(s) of s.
RECURSIVE LowerFrom(_, _)
LowerFrom(s, i) ==
   IF i > Len(s) THEN <<>>
   ELSE (IF s[i] = 931 THEN <<map_uppercase_sigma(s, i)>> ELSE to_lower(s[i]))
        \o LowerFrom(s, i + 1)

\* Faulty variant of to_lowercase: the text is not lowercased.
to_lowercase_none(s) == s

to_lowercase(s) == LowerFrom(s, 1)

\* str::split_whitespace: the maximal runs of characters that are not
\* whitespace, in order.  cur is the word being read, acc the words read.
RECURSIVE SplitFrom(_, _, _, _)
SplitFrom(s, i, cur, acc) ==
   IF i > Len(s) THEN (IF cur = <<>> THEN acc ELSE Append(acc, cur))
   ELSE IF is_whitespace(s[i])
        THEN SplitFrom(s, i + 1, <<>>, IF cur = <<>> THEN acc ELSE Append(acc, cur))
        ELSE SplitFrom(s, i + 1, Append(cur, s[i]), acc)

\* Faulty variant of split_whitespace: str::split(char::is_whitespace), which cuts at
\* every whitespace character and yields the empty fragments too.
RECURSIVE SplitEachFrom(_, _, _, _)
SplitEachFrom(s, i, cur, acc) ==
   IF i > Len(s) THEN Append(acc, cur)
   ELSE IF is_whitespace(s[i])
        THEN SplitEachFrom(s, i + 1, <<>>, Append(acc, cur))
        ELSE SplitEachFrom(s, i + 1, Append(cur, s[i]), acc)

split_each(s) == SplitEachFrom(s, 1, <<>>, <<>>)

split_whitespace(s) == SplitFrom(s, 1, <<>>, <<>>)

\* char::encode_utf8.
Utf8(c) ==
   IF c < 128 THEN <<c>>
   ELSE IF c < 2048 THEN <<192 + (c \div 64), 128 + (c % 64)>>
   ELSE IF c < 65536
        THEN <<224 + (c \div 4096), 128 + ((c \div 64) % 64), 128 + (c % 64)>>
        ELSE <<240 + (c \div 262144), 128 + ((c \div 4096) % 64),
               128 + ((c \div 64) % 64), 128 + (c % 64)>>

\* str::as_bytes: the UTF-8 encoding of the text.
RECURSIVE as_bytes(_)
as_bytes(s) == IF s = <<>> THEN <<>> ELSE Utf8(Head(s)) \o as_bytes(Tail(s))

\* String::len: the length in bytes.
Utf8Len(s) == Len(as_bytes(s))

(***************************************************************************)
(* normalize (lib.rs, lines 11-23).                                        *)
(***************************************************************************)
\* Lines 16-18: the separator is pushed unless the word is the first.
PushSpace(out, first) == IF ~first THEN Append(out, SPACE) ELSE out

\* Faulty variant of PushWord: the word is appended inside the "not first" branch,
\* so the first word is lost.
PushWordInBranch(out, first, word) ==
   IF ~first THEN Append(out, SPACE) \o word ELSE out

\* Faulty variant of PushWord: the separator is written before every word.
PushWordAlwaysSpace(out, first, word) == Append(out, SPACE) \o word

\* The body of the word loop: the buffer after one word is appended.
PushWord(out, first, word) == PushSpace(out, first) \o word

\* The loop over the words ws, from the buffer out.
RECURSIVE PushWords(_, _, _)
PushWords(out, first, ws) ==
   IF ws = <<>> THEN out
   ELSE PushWords(PushWord(out, first, Head(ws)), FALSE, Tail(ws))

normalize(text) == PushWords(<<>>, TRUE, split_whitespace(to_lowercase(text)))

\* One String::push or push_str on a buffer of capacity cap that holds len
\* bytes after it: the capacity is kept while the content fits; otherwise
\* the buffer is reallocated to the largest of the double of the capacity,
\* the length required and 8 bytes (RawVec::grow_amortized for bytes).
Capacity(cap, len) ==
   IF len <= cap THEN cap
   ELSE LET grown == IF 2 * cap > len THEN 2 * cap ELSE len
        IN  IF grown < 8 THEN 8 ELSE grown

\* The texts of at most n characters over the characters cs.
TextsOver(cs, n) == UNION {[1..k -> cs] : k \in 0..n}

\* Input characters of Spec: tab, U+001C, space, '.', 'A', 'a', U+00A0,
\* U+0130, U+03A3.
Alphabet == {9, 28, 32, 46, 65, 97, 160, 304, 931}

Texts == TextsOver(Alphabet, MaxLen)

\* Input characters of SpecHash: tab, space, 'A', U+0130, U+03A3.
HashAlphabet == {9, 32, 65, 304, 931}

HashTexts == TextsOver(HashAlphabet, MaxHashLen)

\* The strings of the unit tests (lines 73-119), as code points.
HelloWorldSpaced ==
   <<32, 32, 72, 101, 108, 108, 111, 32, 32, 32, 87, 111, 114, 108, 100, 32, 32>>

HelloWorld == <<104, 101, 108, 108, 111, 32, 119, 111, 114, 108, 100>>

TestText == <<116, 101, 115, 116>>

ThreeSpaces == <<32, 32, 32>>

\* Input characters of SpecPair: tab, space, 'A', 'a', U+03A3, U+03C3.
PairAlphabet == {9, 32, 65, 97, 931, 963}

\* Longer texts of SpecPair: the test strings, "A\u03a3", "a\u03c3", "a\u03a3",
\* "A  a", "a<tab>A", " a a ".
PairSamples ==
   {HelloWorldSpaced, HelloWorld, <<65, 931>>, <<97, 963>>, <<97, 931>>,
    <<65, 32, 32, 97>>, <<97, 9, 65>>, <<32, 97, 32, 97, 32>>}

PairTexts == TextsOver(PairAlphabet, MaxPairLen) \cup PairSamples

\* Elements of the batches of SpecBatch; <<9, 160, 10>> is tab, U+00A0, newline.
BatchTexts == {<<>>, ThreeSpaces, <<9, 160, 10>>, HelloWorldSpaced, HelloWorld, TestText}

\* Elements of the batches of SpecRepeat: those of test_normalize_and_hash_batch.
RepeatTexts == {HelloWorldSpaced, <<>>, TestText}

\* The batches of at most n texts drawn from ts.
BatchesOver(ts, n) == UNION {[1..k -> ts] : k \in 0..n}

\* Faulty variant of text_hash: the digest of the text as given, not normalized.
text_hash_raw(text) == hex_string(md5_compute(as_bytes(text)))

\* Lines 28-32.
text_hash(text) == hex_string(md5_compute(as_bytes(normalize(text))))

\* Lines 38-40 and 45-47: the exported wrappers.
normalize_and_hash(text) == text_hash(text)

normalize_text(text) == normalize(text)

\* Concatenation of the first n texts.
RECURSIVE ConcatTexts(_, _)
ConcatTexts(texts, n) ==
   IF n = 0 THEN <<>> ELSE ConcatTexts(texts, n - 1) \o texts[n]

\* Faulty variant of BatchPush: the hash is inserted at the front of the output.
BatchPushFront(out, texts) == <<text_hash(texts[Len(out) + 1])>> \o out

\* Faulty variant of BatchPush: a buffer shared by the items is not cleared, so each
\* hash covers the items before it too.
BatchPushCarry(out, texts) == Append(out, text_hash(ConcatTexts(texts, Len(out) + 1)))

\* Lines 54-56, one iteration: the hash of the next input is appended.
BatchPush(out, texts) == Append(out, text_hash(texts[Len(out) + 1]))

\* Lines 52-58 as a function.
RECURSIVE BatchFrom(_, _)
BatchFrom(out, texts) ==
   IF Len(out) >= Len(texts) THEN out ELSE BatchFrom(BatchPush(out, texts), texts)

normalize_and_hash_batch(texts) == BatchFrom(<<>>, texts)

(***************************************************************************)
(* State.                                                                  *)
(*   text, lower, rest, out, first, cap, pc: one call of normalize, and    *)
(*     of text_hash around it (normalized, digest, hash);                  *)
(*   t1, t2, r1, r2: two texts and the results of the exported functions   *)
(*     on each;                                                            *)
(*   batchA, outA, batchB, outB, bpc: two successive calls of              *)
(*     normalize_and_hash_batch.                                           *)
(***************************************************************************)
VARIABLES text, lower, rest, out, first, cap, pc, digest, hash,
          t1, t2, r1, r2, batchA, outA, batchB, outB, bpc

loopVars == <<text, lower, rest, out, first, cap, pc>>

hashVars == <<digest, hash>>

pairVars == <<t1, t2, r1, r2>>

batchVars == <<batchA, outA, batchB, outB, bpc>>

vars == <<loopVars, hashVars, pairVars, batchVars>>

NoResult == [normalized |-> <<>>, hash |-> <<>>, done |-> FALSE]

LoopIdle ==
   /\ lower = <<>>
   /\ rest = <<>>
   /\ out = <<>>
   /\ first = TRUE
   /\ cap = 0
   /\ digest = <<>>
   /\ hash = <<>>

PairIdle == t1 = <<>> /\ t2 = <<>> /\ r1 = NoResult /\ r2 = NoResult

BatchIdle ==
   /\ batchA = <<>>
   /\ outA = <<>>
   /\ batchB = <<>>
   /\ outB = <<>>
   /\ bpc = "idle"

(***************************************************************************)
(* Spec: one call of normalize.                                            *)
(***************************************************************************)
Init ==
   /\ text \in Texts
   /\ pc = "call"
   /\ LoopIdle
   /\ PairIdle
   /\ BatchIdle

\* Lines 12-14: lowercase the text, allocate the buffer, start the iterator.
Enter ==
   /\ pc = "call"
   /\ lower' = to_lowercase(text)
   /\ cap' = Utf8Len(lower')
   /\ out' = <<>>
   /\ first' = TRUE
   /\ rest' = split_whitespace(lower')
   /\ pc' = "loop"
   /\ UNCHANGED <<text, hashVars, pairVars, batchVars>>

\* Lines 15-21: one iteration of the word loop; push (line 17) and push_str
\* (line 19) each grow the buffer when it is full.
LoopStep ==
   /\ pc = "loop"
   /\ rest # <<>>
   /\ out' = PushWord(out, first, Head(rest))
   /\ cap' = Capacity(Capacity(cap, Utf8Len(PushSpace(out, first))), Utf8Len(out'))
   /\ first' = FALSE
   /\ rest' = Tail(rest)
   /\ UNCHANGED <<text, lower, pc, hashVars, pairVars, batchVars>>

\* Line 22: the iterator is exhausted, the buffer is returned.
Return ==
   /\ pc = "loop"
   /\ rest = <<>>
   /\ pc' = "done"
   /\ UNCHANGED <<text, lower, rest, out, first, cap, hashVars, pairVars, batchVars>>

Next == Enter \/ LoopStep \/ Return

Spec == Init /\ [][Next]_vars

(***************************************************************************)
(* SpecHash: one call of text_hash: normalize as above (line 29), then     *)
(* the digest (line 30) and its hex rendering (line 31).                   *)
(***************************************************************************)
InitHash ==
   /\ text \in HashTexts
   /\ pc = "call"
   /\ LoopIdle
   /\ PairIdle
   /\ BatchIdle

\* Line 30: the digest of the bytes of the normalized text.
Digest ==
   /\ pc = "done"
   /\ digest' = md5_compute(as_bytes(out))
   /\ pc' = "digest"
   /\ UNCHANGED <<text, lower, rest, out, first, cap, hash, pairVars, batchVars>>

\* Line 31: the digest in hex.
Hex ==
   /\ pc = "digest"
   /\ hash' = hex_string(digest)
   /\ pc' = "hashed"
   /\ UNCHANGED <<text, lower, rest, out, first, cap, digest, pairVars, batchVars>>

NextHash == Enter \/ LoopStep \/ Return \/ Digest \/ Hex

SpecHash == InitHash /\ [][NextHash]_vars

(***************************************************************************)
(* SpecPair: the exported normalize_text and normalize_and_hash called on  *)
(* two texts, in either order.                                             *)
(***************************************************************************)
InitPair ==
   /\ t1 \in PairTexts
   /\ t2 = <<>>
   /\ r1 = NoResult
   /\ r2 = NoResult
   /\ text = <<>>
   /\ pc = "idle"
   /\ LoopIdle
   /\ BatchIdle

\* What the two exported functions return for the text t.
CallApi(t) ==
   [normalized |-> normalize_text(t), hash |-> normalize_and_hash(t), done |-> TRUE]

\* The first call, on t1.
CallFirst ==
   /\ ~r1.done
   /\ r1' = CallApi(t1)
   /\ UNCHANGED <<t1, t2, r2, loopVars, hashVars, batchVars>>

\* The second call, on any text.
CallSecond ==
   /\ r1.done
   /\ ~r2.done
   /\ \E t \in PairTexts :
         /\ t2' = t
         /\ r2' = CallApi(t)
   /\ UNCHANGED <<t1, r1, loopVars, hashVars, batchVars>>

NextPair == CallFirst \/ CallSecond

SpecPair == InitPair /\ [][NextPair]_vars

(***************************************************************************)
(* SpecBatch: one call of normalize_and_hash_batch.  SpecRepeat: two calls *)
(* one after the other, in the same process.                               *)
(***************************************************************************)
InitBatch ==
   /\ batchA \in BatchesOver(BatchTexts, MaxBatch)
   /\ batchB = <<>>
   /\ outA = <<>>
   /\ outB = <<>>
   /\ bpc = "first"
   /\ text = <<>>
   /\ pc = "idle"
   /\ LoopIdle
   /\ PairIdle

\* Lines 54-56: one iteration of the first call's loop.
BatchStep ==
   /\ bpc = "first"
   /\ Len(outA) < Len(batchA)
   /\ outA' = BatchPush(outA, batchA)
   /\ UNCHANGED <<batchA, batchB, outB, bpc, loopVars, hashVars, pairVars>>

\* Line 57: the first call returns.
BatchReturn ==
   /\ bpc = "first"
   /\ Len(outA) >= Len(batchA)
   /\ bpc' = "returned"
   /\ UNCHANGED <<batchA, batchB, outA, outB, loopVars, hashVars, pairVars>>

NextBatch == BatchStep \/ BatchReturn

SpecBatch == InitBatch /\ [][NextBatch]_vars

InitRepeat ==
   /\ batchA \in BatchesOver(RepeatTexts, MaxBatch)
   /\ batchB = <<>>
   /\ outA = <<>>
   /\ outB = <<>>
   /\ bpc = "first"
   /\ text = <<>>
   /\ pc = "idle"
   /\ LoopIdle
   /\ PairIdle

\* Lines 52-53: the function is called again, on any batch.
RepeatCall ==
   /\ bpc = "returned"
   /\ batchB' \in BatchesOver(RepeatTexts, MaxBatch)
   /\ outB' = <<>>
   /\ bpc' = "second"
   /\ UNCHANGED <<batchA, outA, loopVars, hashVars, pairVars>>

\* Lines 54-56: one iteration of the second call's loop.
RepeatStep ==
   /\ bpc = "second"
   /\ Len(outB) < Len(batchB)
   /\ outB' = BatchPush(outB, batchB)
   /\ UNCHANGED <<batchA, batchB, outA, bpc, loopVars, hashVars, pairVars>>

\* Line 57: the second call returns.
RepeatReturn ==
   /\ bpc = "second"
   /\ Len(outB) >= Len(batchB)
   /\ bpc' = "done"
   /\ UNCHANGED <<batchA, batchB, outA, outB, loopVars, hashVars, pairVars>>

NextRepeat == BatchStep \/ BatchReturn \/ RepeatCall \/ RepeatStep \/ RepeatReturn

SpecRepeat == InitRepeat /\ [][NextRepeat]_vars

(***************************************************************************)
(* The reference the code names (lines 2 and 8): Python's                  *)
(* ' '.join(text.lower().split()).  str.lower is the Unicode lowercase      *)
(* mapping with the Final_Sigma rule, as to_lowercase; str.split() cuts at  *)
(* the characters for which str.isspace holds, which are those of          *)
(* White_Space and U+001C..U+001F.                                         *)
(***************************************************************************)
py_isspace(c) == is_whitespace(c) \/ c \in 28..31

RECURSIVE PySplitFrom(_, _, _, _)
PySplitFrom(s, i, cur, acc) ==
   IF i > Len(s) THEN (IF cur = <<>> THEN acc ELSE Append(acc, cur))
   ELSE IF py_isspace(s[i])
        THEN PySplitFrom(s, i + 1, <<>>, IF cur = <<>> THEN acc ELSE Append(acc, cur))
        ELSE PySplitFrom(s, i + 1, Append(cur, s[i]), acc)

py_split(s) == PySplitFrom(s, 1, <<>>, <<>>)

RECURSIVE py_join(_)
py_join(ws) ==
   IF ws = <<>> THEN <<>>
   ELSE IF Len(ws) = 1 THEN ws[1]
   ELSE ws[1] \o <<32>> \o py_join(Tail(ws))

py_normalize(s) == py_join(py_split(to_lowercase(s)))

(***************************************************************************)
(* Vocabulary of the properties.                                           *)
(***************************************************************************)
\* The Unicode White_Space characters.
WhiteSpace ==
   (9..13) \cup {32, 133, 160, 5760} \cup (8192..8202)
           \cup {8232, 8233, 8239, 8287, 12288}

AllWhiteSpace(s) == \A i \in DOMAIN s : s[i] \in WhiteSpace

LowerHexChars ==
   {"0", "1", "2", "3", "4", "5", "6", "7", "8", "9", "a", "b", "c", "d", "e", "f"}

\* hashlib.md5(b'').hexdigest(), line 104.
EmptyDigest ==
   <<"d", "4", "1", "d", "8", "c", "d", "9", "8", "f", "0", "0", "b", "2", "0", "4",
     "e", "9", "8", "0", "0", "9", "9", "8", "e", "c", "f", "8", "4", "2", "7", "e">>

\* Unicode simple case folding on CodePoints: two characters that differ
\* only in letter case fold to the same character.
CaseFold(c) ==
   IF c \in 65..90 THEN c + 32
   ELSE IF c \in {931, 962} THEN 963
   ELSE c

\* s and t have the same letters, up to letter case.
SameLetters(s, t) ==
   /\ Len(s) = Len(t)
   /\ \A i \in DOMAIN s : CaseFold(s[i]) = CaseFold(t[i])

\* s and t differ only in letter case and in the kind and length of their
\* whitespace runs: the same words, up to case, are separated in both.
CaseWsVariant(s, t) ==
   LET ws == split_whitespace(s)
       wt == split_whitespace(t)
   IN  /\ Len(ws) = Len(wt)
       /\ \A k \in DOMAIN ws : SameLetters(ws[k], wt[k])

\* As SameLetters, but a difference in case counts only between characters
\* with the same lowercase mapping, neither of them U+03A3.
SameLowercase(s, t) ==
   /\ Len(s) = Len(t)
   /\ \A i \in DOMAIN s :
         \/ s[i] = t[i]
         \/ /\ s[i] # 931
            /\ t[i] # 931
            /\ to_lower(s[i]) = to_lower(t[i])

LowercaseWsVariant(s, t) ==
   LET ws == split_whitespace(s)
       wt == split_whitespace(t)
   IN  /\ Len(ws) = Len(wt)
       /\ \A k \in DOMAIN ws : SameLowercase(ws[k], wt[k])

BothCalled == r1.done /\ r2.done

(***************************************************************************)
(* Properties.                                                             *)
(***************************************************************************)
\* The loop of Spec computes the function normalize.
LoopComputesNormalize == pc = "done" => out = normalize(text)

\* C1: whenever normalize_text returns the same for two texts,
\* normalize_and_hash returns the same digest for them; in particular for
\* "  Hello   World  " and "hello world".
C1_EqualNormalizedEqualHash ==
   BothCalled =>
      /\ r1.normalized = r2.normalized => r1.hash = r2.hash
      /\ (t1 = HelloWorldSpaced /\ t2 = HelloWorld) => r1.hash = r2.hash

C1_Witness ==
   /\ BothCalled
   /\ t1 = HelloWorldSpaced
   /\ t2 = HelloWorld
   /\ r1.normalized = r2.normalized
   /\ r1.hash = r2.hash

\* C2: normalize is idempotent: normalizing the returned text returns it
\* unchanged.
C2_Idempotent == pc = "done" => normalize(out) = out

C2_Witness ==
   /\ pc = "done"
   /\ out # text
   /\ \E i \in DOMAIN out : out[i] = SPACE
   /\ normalize(out) = out

\* C3: the returned text has no leading space, no trailing space, no two
\* consecutive spaces and no whitespace character but the ASCII space; it
\* is empty when the input is empty or all whitespace.
C3_Shape ==
   pc = "done" =>
      /\ out # <<>> => (out[1] # SPACE /\ out[Len(out)] # SPACE)
      /\ \A i \in 1..(Len(out) - 1) : ~(out[i] = SPACE /\ out[i + 1] = SPACE)
      /\ \A i \in DOMAIN out : out[i] \in WhiteSpace => out[i] = SPACE
      /\ AllWhiteSpace(text) => out = <<>>

C3_Witness ==
   /\ pc = "done"
   /\ Len(text) = 4
   /\ text[1] \notin WhiteSpace
   /\ text[2] \in WhiteSpace
   /\ text[3] \in WhiteSpace
   /\ text[2] # text[3]
   /\ text[4] \notin WhiteSpace
   /\ Len(out) = 3
   /\ out[2] = SPACE

\* C4: the output of normalize_and_hash_batch has, at index i, the hash of
\* input i, for every input processed so far, and as many elements as the
\* input when the call returns.
C4_BatchIsMap ==
   /\ Len(outA) <= Len(batchA)
   /\ \A i \in 1..Len(outA) : outA[i] = text_hash(batchA[i])
   /\ bpc = "returned" => Len(outA) = Len(batchA)

C4_Witness ==
   /\ bpc = "returned"
   /\ Len(batchA) = 2
   /\ batchA[1] = HelloWorldSpaced
   /\ batchA[2] = <<>>
   /\ Len(outA) = 2
   /\ outA[1] # outA[2]
   /\ outA[2] = EmptyDigest

\* C5: the hash has 32 characters, each one of 0-9 and a-f.
C5_LowerHex32 ==
   pc = "hashed" =>
      /\ Len(hash) = 32
      /\ \A k \in 1..Len(hash) : hash[k] \in LowerHexChars

C5_Witness ==
   /\ pc = "hashed"
   /\ text # <<>>
   /\ Len(hash) = 32
   /\ \E k \in 1..Len(hash) : hash[k] \in {"a", "b", "c", "d", "e", "f"}

\* C6: the hash of an empty or all-whitespace text, alone or as an element
\* of a batch, is the digest of the empty byte sequence.
C6_EmptyDigest ==
   \A i \in 1..Len(outA) : AllWhiteSpace(batchA[i]) => outA[i] = EmptyDigest

C6_Witness ==
   /\ bpc = "returned"
   /\ Len(batchA) = 2
   /\ batchA[1] = ThreeSpaces
   /\ batchA[2] = <<9, 160, 10>>
   /\ outA = <<EmptyDigest, EmptyDigest>>

\* C7: normalize returns what the reference ' '.join(lower(t).split())
\* returns.
C7_MatchesReference == pc = "done" => out = py_normalize(text)

\* C8: two texts that differ only in letter case and in the kind and length
\* of their whitespace runs get the same normalized text and the same hash.
C8_CaseWsInsensitive ==
   (BothCalled /\ CaseWsVariant(t1, t2)) =>
      (r1.normalized = r2.normalized /\ r1.hash = r2.hash)

\* C8, amended: the same for two texts whose differences in case are between
\* characters with the same lowercase mapping, U+03A3 excepted.
C8_LowercaseWsInsensitive ==
   (BothCalled /\ LowercaseWsVariant(t1, t2)) =>
      (r1.normalized = r2.normalized /\ r1.hash = r2.hash)

C8_Witness ==
   /\ BothCalled
   /\ t1 = <<65, 32, 32, 97>>
   /\ t2 = <<97, 9, 65>>
   /\ LowercaseWsVariant(t1, t2)
   /\ r1.normalized = r2.normalized
   /\ r1.hash = r2.hash

\* C9: in two calls of normalize_and_hash_batch, equal inputs get equal
\* outputs wherever they stand and whatever surrounds them, and equal
\* batches get equal results.
C9_NoCrossItemState ==
   bpc = "done" =>
      /\ \A i \in DOMAIN batchA : \A j \in DOMAIN batchB :
            batchA[i] = batchB[j] => outA[i] = outB[j]
      /\ batchA = batchB => outA = outB

C9_Witness ==
   /\ bpc = "done"
   /\ Len(batchA) = 1
   /\ Len(batchB) = 2
   /\ batchB[1] # batchA[1]
   /\ batchB[2] = batchA[1]
   /\ outB[2] = outA[1]
   /\ outB[1] # outA[1]

\* C10: in the loop and after it the buffer is no longer than the
\* lowercased text, its capacity is still the one it was allocated with,
\* and first holds exactly while the buffer is empty.
C10_BufferFits ==
   pc \in {"loop", "done"} =>
      /\ Utf8Len(out) <= Utf8Len(lower)
      /\ cap = Utf8Len(lower)
      /\ first <=> (out = <<>>)

C10_Witness ==
   /\ pc = "done"
   /\ Utf8Len(lower) > Utf8Len(text)
   /\ Utf8Len(out) = cap
   /\ \E i \in DOMAIN out : out[i] = SPACE
   /\ ~first

====
